---- MODULE Spec2Model ----
(***************************************************************************)
(* Radix sort in three variants (sequential, multiprocessing pool, MPI):   *)
(* the digit pass count_sort, the pass loop radix_sort, the partitioner    *)
(* chunkify, the k-way merge and the two orchestrators                     *)
(* parallel_radix_sort and mpi_radix_sort.                                 *)
(*                                                                         *)
(* Python integers are unbounded.  The digit position exp is always a      *)
(* power of ten, so the model carries its decimal exponent e (exp = 10^e)  *)
(* instead of the number itself; every expression of the code over exp is  *)
(* translated to the same expression over 10^e.                            *)
(***************************************************************************)
EXTENDS Integers, Sequences, FiniteSets, TLC

\* ------------------------------------------------------------------ bounds

\* longest list handed to a direct call of count_sort, radix_sort or chunkify
MaxLen == 4
\* longest list handed to an orchestrator
MaxJobLen == 3
\* largest part count handed to chunkify, and largest MPI communicator size
MaxRanks == 3
\* largest decimal exponent handed to a direct count_sort call
MaxExp == 2

\* element values: non-negative, one and two decimal digits, a pair that
\* shares the low digit (0, 10) and a pair that shares the high digit (10, 12)
Vals == {0, 10, 12}
\* pool sizes of the multiprocessing variant
ProcessCounts == {1, 2, 4, 8}

RECURSIVE SeqsUpTo(_)
SeqsUpTo(n) == IF n = 0 THEN {<<>>} ELSE SeqsUpTo(n - 1) \cup [1..n -> Vals]
Inputs == SeqsUpTo(MaxLen)

\* ----------------------------------------------------------- integer helpers

RECURSIVE Pow10(_)
Pow10(k) == IF k = 0 THEN 1 ELSE 10 * Pow10(k - 1)

\* v // exp with exp = 10^e, as e successive floor divisions by ten
RECURSIVE FloorDiv(_,_)
FloorDiv(v, e) == IF e = 0 \/ v = 0 THEN v ELSE FloorDiv(v \div 10, e - 1)

\* (v // exp) % 10
Digit(v, e) == FloorDiv(v, e) % 10

\* max(A) of a non-empty list
RECURSIVE SeqMax(_)
SeqMax(s) == IF Len(s) = 1 THEN s[1]
             ELSE LET m == SeqMax(Tail(s)) IN IF s[1] >= m THEN s[1] ELSE m

\* max_value // exp > 0: floor division of integers
FloorDivPositive(m, e) == FloorDiv(m, e) > 0

\* max_value / exp > 0 with exp = 10^e: Python 3 true division, the correctly
\* rounded IEEE-754 double of the exact quotient.  The smallest positive double
\* is 2^-1074 and a quotient of at most 2^-1075 rounds to 0.0, so the test is
\* m * 2^1075 > 10^e, where 2^1075 = 4.0480450661...e323.  For 0 < m < 24000
\* that is: e <= UnderflowExp, or m * 40480 > 10^(e - UnderflowExp) * 10^4.
UnderflowExp == 323
TrueDivPositive(m, e) ==
    IF m = 0 THEN FALSE
    ELSE IF e <= UnderflowExp THEN TRUE
    ELSE IF e - UnderflowExp > 4 THEN FALSE
    ELSE m * 40480 > Pow10(e - UnderflowExp) * 10000

\* --------------------------------------------------------------- count_sort

\* step 1 and 2: digit frequencies C[0..9], then the running sums
Histogram(A, e) == [d \in 0..9 |-> Cardinality({i \in 1..Len(A) : Digit(A[i], e) = d})]
RECURSIVE Cumulative(_,_)
Cumulative(C, d) == IF d = 0 THEN C[0] ELSE C[d] + Cumulative(C, d - 1)
CumulativeCounts(A, e) == LET C == Histogram(A, e) IN [d \in 0..9 |-> Cumulative(C, d)]

\* step 3, for i = n-1 down to 0: output[C[digit] - 1] = A[i]; C[digit] -= 1
\* (indices here are 1-based, so the slot is C[digit])
RECURSIVE PlaceLeftToRight(_,_,_,_,_)
PlaceLeftToRight(A, e, i, C, output) ==
    IF i > Len(A) THEN output
    ELSE LET d == Digit(A[i], e)
         IN PlaceLeftToRight(A, e, i + 1, [C EXCEPT ![d] = @ - 1],
                             [output EXCEPT ![C[d]] = A[i]])
RECURSIVE PlaceRightToLeft(_,_,_,_,_)
PlaceRightToLeft(A, e, i, C, output) ==
    IF i = 0 THEN output
    ELSE LET d == Digit(A[i], e)
         IN PlaceRightToLeft(A, e, i - 1, [C EXCEPT ![d] = @ - 1],
                             [output EXCEPT ![C[d]] = A[i]])

\* a digit pass that fills the output from the first element to the last
count_sort_forward(A, e) ==
    PlaceLeftToRight(A, e, 1, CumulativeCounts(A, e), [i \in 1..Len(A) |-> 0])

\* count_sort of the sequential variant; the new contents of A
count_sort_seq(A, e) ==
    PlaceRightToLeft(A, e, Len(A), CumulativeCounts(A, e), [i \in 1..Len(A) |-> 0])
\* count_sort of the multiprocessing variant
count_sort_mp(A, e) ==
    PlaceRightToLeft(A, e, Len(A), CumulativeCounts(A, e), [i \in 1..Len(A) |-> 0])
\* count_sort of the MPI variant (for v in reversed(A))
count_sort_mpi(A, e) ==
    PlaceRightToLeft(A, e, Len(A), CumulativeCounts(A, e), [i \in 1..Len(A) |-> 0])

\* --------------------------------------------------------------- radix_sort

\* The loop test of radix_sort reads max_value and exp only, never A, so the
\* loop makes its passes for exp = 10^0, 10^1, ..., 10^(last-1), where last is
\* the least exponent at which the test fails.  No test holds at PassLimit.
PassLimit == UnderflowExp + 5
\* sequential and multiprocessing variants: while max_value / exp > 0
LoopEndTrueDiv(max_value) ==
    CHOOSE e \in 0..PassLimit :
        ~TrueDivPositive(max_value, e) /\ \A f \in 0..(e - 1) : TrueDivPositive(max_value, f)
\* MPI variant: while max_value // exp > 0
LoopEndFloorDiv(max_value) ==
    CHOOSE e \in 0..PassLimit :
        ~FloorDivPositive(max_value, e) /\ \A f \in 0..(e - 1) : FloorDivPositive(max_value, f)

\* count_sort(A, exp) for exp = 10^lo, ..., 10^hi in this order.  The passes
\* are composed by halves to keep the evaluation shallow; the test on Len
\* only makes the first half's result a value before the second half starts.
RECURSIVE passes_seq(_,_,_)
passes_seq(A, lo, hi) ==
    IF lo > hi THEN A
    ELSE IF lo = hi THEN count_sort_seq(A, lo)
    ELSE LET mid == (lo + hi) \div 2
             B == passes_seq(A, lo, mid)
         IN IF Len(B) >= 0 THEN passes_seq(B, mid + 1, hi) ELSE B
RECURSIVE passes_mp(_,_,_)
passes_mp(A, lo, hi) ==
    IF lo > hi THEN A
    ELSE IF lo = hi THEN count_sort_mp(A, lo)
    ELSE LET mid == (lo + hi) \div 2
             B == passes_mp(A, lo, mid)
         IN IF Len(B) >= 0 THEN passes_mp(B, mid + 1, hi) ELSE B
RECURSIVE passes_mpi(_,_,_)
passes_mpi(A, lo, hi) ==
    IF lo > hi THEN A
    ELSE IF lo = hi THEN count_sort_mpi(A, lo)
    ELSE LET mid == (lo + hi) \div 2
             B == passes_mpi(A, lo, mid)
         IN IF Len(B) >= 0 THEN passes_mpi(B, mid + 1, hi) ELSE B

\* radix_sort: the list it leaves in A (and returns) and the number of
\* count_sort passes it made
radix_sort_seq(A) ==
    IF A = <<>> \/ Len(A) = 1 THEN [A |-> A, passes |-> 0]
    ELSE LET last == LoopEndTrueDiv(SeqMax(A))
         IN [A |-> passes_seq(A, 0, last - 1), passes |-> last]
radix_sort_mp(A) ==
    IF A = <<>> \/ Len(A) = 1 THEN [A |-> A, passes |-> 0]
    ELSE LET last == LoopEndTrueDiv(SeqMax(A))
         IN [A |-> passes_mp(A, 0, last - 1), passes |-> last]
radix_sort_mpi(A) ==
    IF A = <<>> \/ Len(A) = 1 THEN [A |-> A, passes |-> 0]
    ELSE LET last == LoopEndFloorDiv(SeqMax(A))
         IN [A |-> passes_mpi(A, 0, last - 1), passes |-> last]

\* ----------------------------------------------------------------- chunkify

\* [data[i : i + size] for i in range(0, n, size)], size >= 1
Slices(data, size) ==
    LET n == Len(data)
        count == (n + size - 1) \div size
    IN [j \in 1..count |->
           SubSeq(data, (j - 1) * size + 1, IF j * size < n THEN j * size ELSE n)]

\* chunkify(data, chunks).  With n = 0 the step of range(0, n, size) is 0 and
\* range raises ValueError.
chunkify(data, k) ==
    LET n == Len(data)
        size == (n + k - 1) \div k
    IN IF size = 0 THEN [raised |-> TRUE, parts |-> <<>>]
       ELSE [raised |-> FALSE, parts |-> Slices(data, size)]

\* the split inside parallel_radix_sort (reached with n >= 1 only)
pool_chunks(A, processes) ==
    LET n == Len(A)
        chunk_size == (n + processes - 1) \div processes
    IN Slices(A, chunk_size)

\* -------------------------------------------------------------------- merge

\* runs joined end to end, in order
RECURSIVE Concat(_)
Concat(runs) == IF runs = <<>> THEN <<>> ELSE Head(runs) \o Concat(Tail(runs))

\* list(heapq.merge(*runs)): the least head of the runs not yet exhausted is
\* taken next, the earlier run first among equal heads
RECURSIVE heapq_merge(_)
heapq_merge(runs) ==
    LET live == {i \in 1..Len(runs) : runs[i] # <<>>}
    IN IF live = {} THEN <<>>
       ELSE LET i == CHOOSE x \in live : \A y \in live :
                         \/ runs[x][1] < runs[y][1]
                         \/ runs[x][1] = runs[y][1] /\ x <= y
            IN <<runs[i][1]>> \o heapq_merge([runs EXCEPT ![i] = Tail(@)])

\* -------------------------------------------------------------------- state

VARIABLES
    call,           \* the function entered: "<file>.<function>"
    data,           \* the list argument as the caller passed it
    arg,            \* second argument: exponent of exp, part count, pool or communicator size
    pc,             \* "call", "waiting" (pool.map / gather), "merging", "returned", "raised"
    A,              \* the caller's list object, which the sorts change in place
    chunks,         \* the partitions made by the orchestrator
    task,           \* per dispatched partition: the worker's state and its own copy
    sorted_chunks,  \* what pool.map returned / comm.gather gathered at the root
    ret,            \* <<>> before a return, <<value>> after it
    passes          \* count_sort passes made by a direct radix_sort call

vars == <<call, data, arg, pc, A, chunks, task, sorted_chunks, ret, passes>>

CountSortCalls == {"seq.count_sort", "mp.count_sort", "mpi.count_sort"}
RadixSortCalls == {"seq.radix_sort", "mp.radix_sort", "mpi.radix_sort"}

OrchestratorCalls == {"mp.parallel_radix_sort", "mpi.mpi_radix_sort"}

Init ==
    /\ call \in CountSortCalls \cup RadixSortCalls \cup {"mpi.chunkify"} \cup OrchestratorCalls
    /\ data \in IF call \in OrchestratorCalls THEN SeqsUpTo(MaxJobLen) ELSE Inputs
    /\ arg \in IF call \in CountSortCalls THEN 0..MaxExp
               ELSE IF call \in RadixSortCalls THEN {0}
               ELSE IF call = "mp.parallel_radix_sort" THEN ProcessCounts
               ELSE 1..MaxRanks
    /\ pc = "call"
    /\ A = data
    /\ chunks = <<>>
    /\ task = <<>>
    /\ sorted_chunks = <<>>
    /\ ret = <<>>
    /\ passes = 0

\* ------------------------------------------------- direct calls of the sorts

SeqCountSort ==
    /\ call = "seq.count_sort" /\ pc = "call"
    /\ A' = count_sort_seq(A, arg)
    /\ pc' = "returned"
    /\ UNCHANGED <<call, data, arg, chunks, task, sorted_chunks, ret, passes>>

MpCountSort ==
    /\ call = "mp.count_sort" /\ pc = "call"
    /\ A' = count_sort_mp(A, arg)
    /\ pc' = "returned"
    /\ UNCHANGED <<call, data, arg, chunks, task, sorted_chunks, ret, passes>>

MpiCountSort ==
    /\ call = "mpi.count_sort" /\ pc = "call"
    /\ A' = count_sort_mpi(A, arg)
    /\ pc' = "returned"
    /\ UNCHANGED <<call, data, arg, chunks, task, sorted_chunks, ret, passes>>

SeqRadixSort ==
    /\ call = "seq.radix_sort" /\ pc = "call"
    /\ LET r == radix_sort_seq(A)
       IN A' = r.A /\ ret' = <<r.A>> /\ passes' = r.passes
    /\ pc' = "returned"
    /\ UNCHANGED <<call, data, arg, chunks, task, sorted_chunks>>

MpRadixSort ==
    /\ call = "mp.radix_sort" /\ pc = "call"
    /\ LET r == radix_sort_mp(A)
       IN A' = r.A /\ ret' = <<r.A>> /\ passes' = r.passes
    /\ pc' = "returned"
    /\ UNCHANGED <<call, data, arg, chunks, task, sorted_chunks>>

MpiRadixSort ==
    /\ call = "mpi.radix_sort" /\ pc = "call"
    /\ LET r == radix_sort_mpi(A)
       IN A' = r.A /\ ret' = <<r.A>> /\ passes' = r.passes
    /\ pc' = "returned"
    /\ UNCHANGED <<call, data, arg, chunks, task, sorted_chunks>>

Chunkify ==
    /\ call = "mpi.chunkify" /\ pc = "call"
    /\ LET r == chunkify(data, arg)
       IN IF r.raised
          THEN pc' = "raised" /\ UNCHANGED ret
          ELSE pc' = "returned" /\ ret' = <<r.parts>>
    /\ UNCHANGED <<call, data, arg, A, chunks, task, sorted_chunks, passes>>

\* ------------------------------------- parallel_radix_sort (multiprocessing)

Tasks == 1..Len(task)
AllReturned == \A i \in Tasks : task[i].st = "returned"
SomeFailed == \E i \in Tasks : task[i].st \in {"raised", "died"}

\* Entry up to the pool.map call: the early return on an empty list, else the
\* split and the submission of one radix_sort task per chunk.  pool.map pickles
\* each chunk to a worker process, so every task works on a copy of its own.
ParallelDispatch ==
    /\ call = "mp.parallel_radix_sort" /\ pc = "call"
    /\ IF A = <<>>
       THEN /\ pc' = "returned"
            /\ ret' = <<A>>
            /\ UNCHANGED <<chunks, task>>
       ELSE /\ chunks' = pool_chunks(A, arg)
            /\ task' = [i \in 1..Len(chunks') |-> [st |-> "ready", buf |-> chunks'[i]]]
            /\ pc' = "waiting"
            /\ UNCHANGED ret
    /\ UNCHANGED <<call, data, arg, A, sorted_chunks, passes>>

\* a task whose result reaches every buffer still waiting to be sorted
PoolWorkerShared(i) ==
    /\ call = "mp.parallel_radix_sort" /\ pc = "waiting"
    /\ task[i].st = "ready"
    /\ task' = [j \in Tasks |->
                  IF j = i THEN [st |-> "returned", buf |-> radix_sort_mp(task[i].buf).A]
                  ELSE IF task[j].st = "ready"
                       THEN [task[j] EXCEPT !.buf = radix_sort_mp(task[i].buf).A]
                       ELSE task[j]]
    /\ UNCHANGED <<call, data, arg, pc, A, chunks, sorted_chunks, ret, passes>>

\* a pool worker runs radix_sort on its copy of chunk i and returns the list
PoolWorker(i) ==
    /\ call = "mp.parallel_radix_sort" /\ pc = "waiting"
    /\ task[i].st = "ready"
    /\ task' = [task EXCEPT ![i] = [st |-> "returned", buf |-> radix_sort_mp(@.buf).A]]
    /\ UNCHANGED <<call, data, arg, pc, A, chunks, sorted_chunks, ret, passes>>

\* the task raises inside the worker (MemoryError, ...): the pool records the
\* exception as the task's outcome
PoolWorkerRaise(i) ==
    /\ call = "mp.parallel_radix_sort" /\ pc = "waiting"
    /\ task[i].st = "ready"
    /\ task' = [task EXCEPT ![i].st = "raised"]
    /\ UNCHANGED <<call, data, arg, pc, A, chunks, sorted_chunks, ret, passes>>

\* the worker process is killed while it holds the task: the pool never gets
\* an outcome for it
PoolWorkerDie(i) ==
    /\ call = "mp.parallel_radix_sort" /\ pc = "waiting"
    /\ task[i].st = "ready"
    /\ task' = [task EXCEPT ![i].st = "died"]
    /\ UNCHANGED <<call, data, arg, pc, A, chunks, sorted_chunks, ret, passes>>

\* a pool.map that hands back the runs it has, whatever became of the others
PoolMapReturnPartial ==
    /\ call = "mp.parallel_radix_sort" /\ pc = "waiting"
    /\ \A i \in Tasks : task[i].st # "ready"
    /\ sorted_chunks' = [i \in Tasks |-> IF task[i].st = "returned" THEN task[i].buf ELSE <<>>]
    /\ pc' = "merging"
    /\ UNCHANGED <<call, data, arg, A, chunks, task, ret, passes>>

\* pool.map returns: every task has an outcome and none is an exception; the
\* results come in submission order
PoolMapReturn ==
    /\ call = "mp.parallel_radix_sort" /\ pc = "waiting"
    /\ AllReturned
    /\ sorted_chunks' = [i \in Tasks |-> task[i].buf]
    /\ pc' = "merging"
    /\ UNCHANGED <<call, data, arg, A, chunks, task, ret, passes>>

\* pool.map re-raises: every task has an outcome and one is an exception
PoolMapRaise ==
    /\ call = "mp.parallel_radix_sort" /\ pc = "waiting"
    /\ \A i \in Tasks : task[i].st \in {"returned", "raised"}
    /\ \E i \in Tasks : task[i].st = "raised"
    /\ pc' = "raised"
    /\ UNCHANGED <<call, data, arg, A, chunks, task, sorted_chunks, ret, passes>>

\* a merge that joins the runs end to end
ParallelConcat ==
    /\ call = "mp.parallel_radix_sort" /\ pc = "merging"
    /\ LET merged == Concat(sorted_chunks)
       IN /\ A' = [i \in 1..Len(A) |-> IF i <= Len(merged) THEN merged[i] ELSE A[i]]
          /\ ret' = <<A'>>
    /\ pc' = "returned"
    /\ UNCHANGED <<call, data, arg, chunks, task, sorted_chunks, passes>>

\* merge, copy back into the caller's list, return it
ParallelMerge ==
    /\ call = "mp.parallel_radix_sort" /\ pc = "merging"
    /\ LET merged == heapq_merge(sorted_chunks)
       IN /\ A' = [i \in 1..Len(A) |-> IF i <= Len(merged) THEN merged[i] ELSE A[i]]
          /\ ret' = <<A'>>
    /\ pc' = "returned"
    /\ UNCHANGED <<call, data, arg, chunks, task, sorted_chunks, passes>>

\* ------------------------------------------------------ mpi_radix_sort (MPI)
\* task[r + 1] is rank r; rank 0 is the root and the caller observed here.

\* Rank 0 makes the chunks and enters comm.scatter.  chunkify may raise; the
\* scatter of a list whose length is not the communicator size raises
\* ValueError at the root.  In both cases the other ranks stay in scatter.
MpiScatter ==
    /\ call = "mpi.mpi_radix_sort" /\ pc = "call"
    /\ LET r == chunkify(data, arg)
       IN IF r.raised \/ Len(r.parts) # arg
          THEN /\ pc' = "raised"
               /\ chunks' = r.parts
               /\ UNCHANGED task
          ELSE /\ chunks' = r.parts
               /\ task' = [i \in 1..arg |-> [st |-> "ready", buf |-> r.parts[i]]]
               /\ pc' = "waiting"
    /\ UNCHANGED <<call, data, arg, A, sorted_chunks, ret, passes>>

\* rank i - 1 sorts its local_chunk and enters comm.gather
MpiRankSort(i) ==
    /\ call = "mpi.mpi_radix_sort" /\ pc = "waiting"
    /\ task[i].st = "ready"
    /\ task' = [task EXCEPT ![i] = [st |-> "returned", buf |-> radix_sort_mpi(@.buf).A]]
    /\ UNCHANGED <<call, data, arg, pc, A, chunks, sorted_chunks, ret, passes>>

\* radix_sort raises on rank i - 1: the rank leaves mpi_radix_sort with the
\* exception and never enters gather
MpiRankRaise(i) ==
    /\ call = "mpi.mpi_radix_sort" /\ pc = "waiting"
    /\ task[i].st = "ready"
    /\ task' = [task EXCEPT ![i].st = "raised"]
    /\ UNCHANGED <<call, data, arg, pc, A, chunks, sorted_chunks, ret, passes>>

\* the process of a rank other than the root is killed
MpiRankDie(i) ==
    /\ call = "mpi.mpi_radix_sort" /\ pc = "waiting"
    /\ i # 1
    /\ task[i].st = "ready"
    /\ task' = [task EXCEPT ![i].st = "died"]
    /\ UNCHANGED <<call, data, arg, pc, A, chunks, sorted_chunks, ret, passes>>

\* the exception of rank 0's own radix_sort leaves mpi_radix_sort at the root
MpiRootRaise ==
    /\ call = "mpi.mpi_radix_sort" /\ pc = "waiting"
    /\ task[1].st = "raised"
    /\ pc' = "raised"
    /\ UNCHANGED <<call, data, arg, A, chunks, task, sorted_chunks, ret, passes>>

\* a gather that completes at the root as soon as the root's own run is in
MpiGatherEarly ==
    /\ call = "mpi.mpi_radix_sort" /\ pc = "waiting"
    /\ task[1].st = "returned"
    /\ sorted_chunks' = [i \in Tasks |-> task[i].buf]
    /\ pc' = "merging"
    /\ UNCHANGED <<call, data, arg, A, chunks, task, ret, passes>>

\* comm.gather completes at the root: every rank has contributed its run
MpiGather ==
    /\ call = "mpi.mpi_radix_sort" /\ pc = "waiting"
    /\ AllReturned
    /\ sorted_chunks' = [i \in Tasks |-> task[i].buf]
    /\ pc' = "merging"
    /\ UNCHANGED <<call, data, arg, A, chunks, task, ret, passes>>

\* the root merges and returns
MpiMerge ==
    /\ call = "mpi.mpi_radix_sort" /\ pc = "merging"
    /\ ret' = <<heapq_merge(sorted_chunks)>>
    /\ pc' = "returned"
    /\ UNCHANGED <<call, data, arg, A, chunks, task, sorted_chunks, passes>>

\* ------------------------------------------------------------ specification

WorkerStep ==
    \/ \E i \in Tasks : PoolWorker(i)
    \/ \E i \in Tasks : MpiRankSort(i)

WorkerFailure ==
    \/ \E i \in Tasks : PoolWorkerRaise(i)
    \/ \E i \in Tasks : PoolWorkerDie(i)
    \/ \E i \in Tasks : MpiRankRaise(i)
    \/ \E i \in Tasks : MpiRankDie(i)

Progress ==
    \/ SeqCountSort \/ MpCountSort \/ MpiCountSort
    \/ SeqRadixSort \/ MpRadixSort \/ MpiRadixSort
    \/ Chunkify
    \/ ParallelDispatch \/ PoolMapReturn \/ PoolMapRaise \/ ParallelMerge
    \/ MpiScatter \/ MpiRootRaise \/ MpiGather \/ MpiMerge
    \/ WorkerStep

Next == Progress \/ WorkerFailure

Spec == Init /\ [][Next]_vars

\* --------------------------------------------------------------- properties

IsSorted(s) == \A i \in 1..(Len(s) - 1) : s[i] <= s[i + 1]
Occurrences(s, v) == Cardinality({i \in 1..Len(s) : s[i] = v})
IsPermutation(s, t) ==
    /\ Len(s) = Len(t)
    /\ \A i \in 1..Len(t) : Occurrences(s, t[i]) = Occurrences(t, t[i])
\* the elements of s whose digit at 10^e is d, in their order in s
WithDigit(s, e, d) == LET Keep(v) == Digit(v, e) = d IN SelectSeq(s, Keep)
\* number of decimal digits of m; 0 has none
RECURSIVE NumDigits(_)
NumDigits(m) == IF m = 0 THEN 0 ELSE 1 + NumDigits(m \div 10)

\* C1: after radix_sort(A) returns, A is non-decreasing and a permutation of
\* the list passed in, and the returned list is A.
C1_RadixSortSorts ==
    (call \in RadixSortCalls /\ pc = "returned") =>
        /\ IsSorted(A)
        /\ IsPermutation(A, data)
        /\ ret = <<A>>
\* a returned sequential radix_sort of an unsorted list with two-digit values
C1_Witness ==
    /\ call = "seq.radix_sort" /\ pc = "returned"
    /\ data = <<12, 10, 0, 10>>
    /\ A = <<0, 10, 10, 12>>

\* C2: parallel_radix_sort(A, p) returns what radix_sort returns on a copy of
\* A, duplicates kept, for every pool size p in {1, 2, 4, 8}.
C2_ParallelEqualsSequential ==
    (call = "mp.parallel_radix_sort" /\ pc = "returned") =>
        /\ ret = <<radix_sort_mp(data).A>>
        /\ A = ret[1]
\* a returned parallel sort of a list with a duplicate whose length is not a
\* multiple of the pool size
C2_Witness ==
    /\ call = "mp.parallel_radix_sort" /\ pc = "returned"
    /\ arg = 2 /\ data = <<12, 10, 10>>
    /\ Len(chunks) = 2
    /\ ret = << <<10, 10, 12>> >>

\* C3 (as claimed): with no rank failing, mpi_radix_sort never raises at the
\* root, whatever the length of the input, and what the root returns is the
\* sorted input.
C3_MpiCompletes ==
    (call = "mpi.mpi_radix_sort" /\ ~SomeFailed) =>
        /\ pc # "raised"
        /\ pc = "returned" => (IsSorted(ret[1]) /\ IsPermutation(ret[1], data))

\* C4 (as claimed): the partitioner returns exactly k parts whenever n >= k
\* and fewer than k parts only when n < k.
C4_PartCount ==
    /\ (call = "mpi.chunkify" /\ pc = "returned") =>
          /\ Len(data) >= arg => Len(ret[1]) = arg
          /\ Len(ret[1]) < arg => Len(data) < arg
    /\ (call = "mp.parallel_radix_sort" /\ pc = "waiting") =>
          /\ Len(data) >= arg => Len(chunks) = arg
          /\ Len(chunks) < arg => Len(data) < arg

\* C5 (as claimed): chunkify(A, k) returns normally for every A, the empty
\* list included, the parts joined in order are A, and the empty list gives
\* zero parts.
C5_ChunkifyRoundTrip ==
    call = "mpi.chunkify" =>
        /\ pc # "raised"
        /\ pc = "returned" =>
              /\ Concat(ret[1]) = data
              /\ data = <<>> => ret[1] = <<>>

\* C6 (as claimed): once a worker task has failed, the orchestrator fails with
\* an error its caller sees: it comes to rest only with the error raised.
C6_FailureSurfaces == (SomeFailed /\ ~ENABLED Progress) => pc = "raised"
\* C6 (amended): once a worker task has failed the orchestrator never collects,
\* merges or returns; and an orchestrator that raised after dispatch did so
\* because a task raised (in the pool: after every task had an outcome).
C6_NoResultAfterFailure ==
    /\ SomeFailed =>
          /\ pc \in {"waiting", "raised"}
          /\ sorted_chunks = <<>>
          /\ ret = <<>>
          /\ A = data
    /\ (call \in OrchestratorCalls /\ pc = "raised" /\ task # <<>>) =>
          /\ \E i \in Tasks : task[i].st = "raised"
          /\ call = "mp.parallel_radix_sort" => \A i \in Tasks : task[i].st # "ready"
\* pool.map has re-raised while another task's sorted run was available
C6_Witness ==
    /\ call = "mp.parallel_radix_sort" /\ pc = "raised"
    /\ \E i \in Tasks : task[i].st = "raised"
    /\ \E i \in Tasks : task[i].st = "returned" /\ task[i].buf # <<>>

\* C7 (as claimed): for a list of length >= 2 with maximum M, radix_sort makes
\* as many count_sort passes as M has decimal digits (none when M = 0), in
\* each of the three variants.
C7_PassCount ==
    (call \in RadixSortCalls /\ pc = "returned" /\ Len(data) >= 2) =>
        passes = NumDigits(SeqMax(data))

\* C8: when the merge is about to start, every dispatched task has returned
\* and the merge input holds exactly one sorted run per dispatched partition.
C8_MergeAfterAllRuns ==
    (call \in OrchestratorCalls /\ pc = "merging") =>
        /\ AllReturned
        /\ Len(task) = Len(chunks)
        /\ Len(sorted_chunks) = Len(chunks)
        /\ \A i \in 1..Len(chunks) :
              /\ IsSorted(sorted_chunks[i])
              /\ IsPermutation(sorted_chunks[i], chunks[i])
\* the root of a three-rank run holds the three gathered runs
C8_Witness ==
    /\ call = "mpi.mpi_radix_sort" /\ pc = "merging"
    /\ Len(sorted_chunks) = 3
    /\ data = <<12, 10, 0>>

\* C9: a step of one worker task changes that task alone (no other task's
\* partition, not the orchestrator's chunks, not the caller's list), and
\* whatever the order in which the tasks ran, the result returned is the
\* sorted input.
C9_StepIsolated ==
    /\ (pc = "waiting" /\ pc' = "waiting") =>
          /\ Len(task') = Len(task)
          /\ \E i \in Tasks : \A j \in Tasks \ {i} : task'[j] = task[j]
          /\ \A j \in Tasks : task'[j].st = "ready" => task'[j].buf = chunks[j]
          /\ chunks' = chunks
          /\ A' = A
    /\ (call \in OrchestratorCalls /\ pc' = "returned") =>
          /\ IsSorted(ret'[1])
          /\ IsPermutation(ret'[1], data)
C9_WorkersIsolated == [][C9_StepIsolated]_vars
\* the second task has returned while the first has not yet run
C9_Witness ==
    /\ call = "mp.parallel_radix_sort" /\ pc = "waiting"
    /\ Len(task) >= 2
    /\ task[1].st = "ready" /\ Len(task[1].buf) >= 2
    /\ task[2].st = "returned"

\* C10: count_sort(A, exp) leaves in A a permutation of A that is
\* non-decreasing in the digit (value // exp) % 10 and stable: the elements
\* of each digit keep their relative order; an empty list stays empty.
C10_CountSortStable ==
    (call \in CountSortCalls /\ pc = "returned") =>
        /\ IsPermutation(A, data)
        /\ \A i \in 1..(Len(A) - 1) : Digit(A[i], arg) <= Digit(A[i + 1], arg)
        /\ \A d \in 0..9 : WithDigit(A, arg, d) = WithDigit(data, arg, d)
        /\ data = <<>> => A = <<>>
\* a pass on the tens digit that had to keep 12 before 10
C10_Witness ==
    /\ call = "mpi.count_sort" /\ pc = "returned"
    /\ arg = 1 /\ data = <<12, 10, 0>>
    /\ A = <<0, 12, 10>>
====
